---- MODULE Spec2Model ----
(***************************************************************************)
(* Model of src/router.js: class Router (route registration, URLPattern    *)
(* matching with parameter extraction, JSON body parsing, the static file  *)
(* handler, and the dispatch loop of route()).                             *)
(*                                                                         *)
(* Strings that the code inspects character by character (pathnames and    *)
(* request paths) are sequences of one-character strings.                  *)
(***************************************************************************)
EXTENDS Integers, Sequences, FiniteSets, TLC

(***************************************************************************)
(* Strings                                                                 *)
(***************************************************************************)
Slash == "/"

Front(s) == SubSeq(s, 1, Len(s) - 1)

Last(s) == s[Len(s)]

\* s has t as a substring starting at position pos
HasAt(s, pos, t) ==
    /\ pos + Len(t) - 1 <= Len(s)
    /\ \A k \in 1..Len(t) : s[pos + k - 1] = t[k]

\* String.prototype.endsWith
endsWith(s, t) == Len(t) <= Len(s) /\ HasAt(s, Len(s) - Len(t) + 1, t)

(***************************************************************************)
(* new URLPattern({ pathname }): the pathname component of the pattern.    *)
(* The forms modelled are the ones the pathnames of this model use: fixed  *)
(* text, a named group ":name" (one path segment) and a named group with a *)
(* modifier ":name*", ":name+", ":name?"; the "/" before a group is the    *)
(* group's prefix.  The constructor throws a TypeError for a ":" that no   *)
(* name follows and for a name used twice.                                 *)
(***************************************************************************)
NonNameChars == {"/", ":", "*", "+", "?", ".", "-"}

Modifiers == {"*", "+", "?"}

RECURSIVE NameAt(_, _)
NameAt(p, i) ==
    IF i <= Len(p) /\ p[i] \notin NonNameChars
    THEN <<p[i]>> \o NameAt(p, i + 1)
    ELSE <<>>

FixedPart(text) ==
    [type |-> "fixed", value |-> text, name |-> <<>>, prefix |-> <<>>, modifier |-> ""]

GroupPart(name, prefix, modifier) ==
    [type |-> "group", value |-> <<>>, name |-> name, prefix |-> prefix,
     modifier |-> modifier]

Flush(parts, text) == IF text = <<>> THEN parts ELSE Append(parts, FixedPart(text))

PatternError == [ok |-> FALSE, parts |-> <<>>]

RECURSIVE ParseFrom(_, _, _, _)
ParseFrom(p, i, text, parts) ==
    IF i > Len(p) THEN [ok |-> TRUE, parts |-> Flush(parts, text)]
    ELSE IF p[i] = ":" THEN
        LET name == NameAt(p, i + 1)
            j == i + 1 + Len(name)
            modifier == IF j <= Len(p) /\ p[j] \in Modifiers THEN p[j] ELSE ""
            hasPrefix == text # <<>> /\ Last(text) = Slash
            prefix == IF hasPrefix THEN <<Slash>> ELSE <<>>
            before == IF hasPrefix THEN Front(text) ELSE text
            next == IF modifier = "" THEN j ELSE j + 1
        IN  IF name = <<>> \/ \E k \in 1..Len(parts) : parts[k].name = name
            THEN PatternError
            ELSE ParseFrom(p, next, <<>>,
                           Append(Flush(parts, before), GroupPart(name, prefix, modifier)))
    ELSE ParseFrom(p, i + 1, Append(text, p[i]), parts)

\* new URLPattern({ pathname }): ok = FALSE when the constructor throws
URLPattern(pathname) == ParseFrom(pathname, 1, <<>>, <<>>)

\* v is one or more non-empty segments without "/", separated by the prefix
Repeats(v, prefix) ==
    /\ v # <<>>
    /\ v[1] # Slash
    /\ Last(v) # Slash
    /\ \A k \in 1..(Len(v) - 1) : ~(v[k] = Slash /\ v[k + 1] = Slash)
    /\ prefix = <<>> => \A k \in 1..Len(v) : v[k] # Slash

\* every way the parts from the k-th on match s from position pos on, each as
\* the sequence of the values of the groups (<<>> for a group left unmatched)
RECURSIVE MatchFrom(_, _, _, _)
MatchFrom(parts, k, s, pos) ==
    IF k > Len(parts) THEN (IF pos = Len(s) + 1 THEN {<<>>} ELSE {})
    ELSE IF parts[k].type = "fixed" THEN
        IF HasAt(s, pos, parts[k].value)
        THEN MatchFrom(parts, k + 1, s, pos + Len(parts[k].value))
        ELSE {}
    ELSE
        LET prefix == parts[k].prefix
            start == pos + Len(prefix)
            ends == {e \in start..Len(s) :
                        /\ HasAt(s, pos, prefix)
                        /\ IF parts[k].modifier \in {"*", "+"}
                           THEN Repeats(SubSeq(s, start, e), prefix)
                           ELSE \A j \in start..e : s[j] # Slash}
            taken == UNION {{<<SubSeq(s, start, e)>> \o m :
                                m \in MatchFrom(parts, k + 1, s, e + 1)} : e \in ends}
            skipped == IF parts[k].modifier \in {"*", "?"}
                       THEN {<<<<>>>> \o m : m \in MatchFrom(parts, k + 1, s, pos)}
                       ELSE {}
        IN  taken \cup skipped

\* the groups of the pattern, in order
GroupNames(parts) ==
    LET idx == {k \in 1..Len(parts) : parts[k].type = "group"}
        RECURSIVE From(_)
        From(k) == IF k > Len(parts) THEN <<>>
                   ELSE IF k \in idx THEN <<parts[k].name>> \o From(k + 1)
                   ELSE From(k + 1)
    IN  From(1)

\* the regular expression's match: a group takes as little as lets the rest match
FirstMatch(ms) ==
    CHOOSE m \in ms : \A o \in ms :
        \/ o = m
        \/ \E i \in 1..Len(m) : /\ \A j \in 1..(i - 1) : Len(m[j]) = Len(o[j])
                                /\ Len(m[i]) < Len(o[i])

\* URLPattern.prototype.test(reqUrl): only the pathname component constrains,
\* every other component of the pattern is the wildcard
test(url, reqUrl) == MatchFrom(url.parts, 1, reqUrl.pathname, 1) # {}

\* URLPattern.prototype.exec(reqUrl).pathname.groups, as <<[name, value], ...>>
PathnameGroups(url, reqUrl) ==
    LET names == GroupNames(url.parts)
        m == FirstMatch(MatchFrom(url.parts, 1, reqUrl.pathname, 1))
    IN  [k \in 1..Len(names) |-> [name |-> names[k], value |-> m[k]]]

\* URLPattern.prototype.exec(reqUrl).search.groups: the wildcard component is
\* one unnamed group, numbered 0, that holds the whole query
SearchGroups(url, reqUrl) == <<[name |-> <<"0">>, value |-> reqUrl.search]>>

(***************************************************************************)
(* Values                                                                  *)
(***************************************************************************)
\* a JavaScript string, and a value that is no string
Str(chars) == [typeof |-> "string", chars |-> chars]

NotAString == [typeof |-> "number", chars |-> <<>>]

\* JSON values: null, and the object { test: <string> }
JsonNull == [t |-> "null", test |-> <<>>]

JsonObject(v) == [t |-> "object", test |-> v]

Undefined == <<"u", "n", "d", "e", "f", "i", "n", "e", "d">>

\* JSON.parse(text): threw = TRUE for the SyntaxError
JSONparse(text) ==
    CASE text = "{\"test\":\"TEST\"}" ->
            [threw |-> FALSE, value |-> JsonObject(<<"T", "E", "S", "T">>)]
      [] text = "null" -> [threw |-> FALSE, value |-> JsonNull]
      [] OTHER -> [threw |-> TRUE, value |-> JsonNull]

\* new Response(body, { status, headers }); by = 0 for a response that route()
\* builds, and the position of the handler's route for a handler's response
Response(text, arg, status, contentType, by) ==
    [text |-> text, arg |-> arg, status |-> status, contentType |-> contentType,
     by |-> by]

(***************************************************************************)
(* Handlers: the functions the test suite and static() register            *)
(***************************************************************************)
Handler(kind, foldername) == [kind |-> kind, foldername |-> foldername]

\* () => new Response(null)                                    (line 252)
Responds == Handler("responds", <<>>)

\* () => { throw new Error("TEST") }                           (line 261)
Throws == Handler("throws", <<>>)

\* ({ body }) => new Response(`test, ${body.test}!`)           (line 202)
EchoBody == Handler("echoBody", <<>>)

\* ({ params }) => new Response(`test, ${params.pathname.id}!`) (line 191)
EchoId == Handler("echoId", <<>>)

\* the handler static() builds
StaticHandler(foldername) == Handler("static", foldername)

\* the files Deno.open can open
Files == {<<".", "/", "s", "t", "a", "t", "i", "c", "/", "a", ".", "j", "s">>}

\* groups[name], undefined when the object has no such key
Prop(groups, name) ==
    IF \E k \in 1..Len(groups) : groups[k].name = name
    THEN (CHOOSE g \in {groups[k] : k \in 1..Len(groups)} : g.name = name).value
    ELSE Undefined

Returned(response) == [threw |-> FALSE, response |-> response]

Thrown == [threw |-> TRUE, response |-> Response("", <<>>, 0, "", 0)]

\* static()'s handler without its try/catch: a file that does not open throws
StaticBodyNoCatch(foldername, params, by) ==
    IF ~params.hasPathname THEN Thrown
    ELSE LET path == Prop(params.pathname, <<"p", "a", "t", "h">>)
         IN  IF (<<".", Slash>> \o foldername \o <<Slash>> \o path) \notin Files
             THEN Thrown
             ELSE Returned(Response("file", path, 200, "", by))

\* the handler static() registers (lines 119-138): everything it does is
\* inside its try, so a params without pathname or a file that does not open
\* ends in the catch
StaticBody(foldername, params, by) ==
    IF ~params.hasPathname THEN Returned(Response("Not Found", <<>>, 404, "", by))
    ELSE LET path == Prop(params.pathname, <<"p", "a", "t", "h">>)
         IN  IF (<<".", Slash>> \o foldername \o <<Slash>> \o path) \notin Files
             THEN Returned(Response("Not Found", <<>>, 404, "", by))
             ELSE Returned(Response("file", path, 200,
                                    IF endsWith(path, <<".", "j", "s">>)
                                    THEN "text/javascript" ELSE "", by))

\* handler({ req, params, body }), settled: what it returns, or that it threw
Call(handler, params, body, by) ==
    CASE handler.kind = "responds" -> Returned(Response("", <<>>, 200, "", by))
      [] handler.kind = "throws" -> Thrown
      [] handler.kind = "echoBody" ->
            IF body.t = "null" THEN Thrown
            ELSE Returned(Response("test, %s!", body.test, 200, "", by))
      [] handler.kind = "echoId" ->
            IF ~params.hasPathname THEN Thrown
            ELSE Returned(Response("test, %s!", Prop(params.pathname, <<"i", "d">>),
                                   200, "", by))
      [] handler.kind = "static" -> StaticBody(handler.foldername, params, by)

(***************************************************************************)
(* Bounds and inputs                                                       *)
(***************************************************************************)
\* registration calls that store an entry
MaxRegs == 2

\* Request objects
MaxRequests == 1

\* calls of route()
MaxDispatch == 2

\* the keys of #routes (lines 18-23)
Methods == {"GET", "POST", "PATCH", "DELETE"}

\* the methods of the requests; "TEST" is the one of the test at line 245
RequestMethods == {"GET", "POST", "TEST"}

PTest == <<"/", "t", "e", "s", "t">>

PTestId == PTest \o <<"/", ":", "i", "d">>

\* the pathname static("") registers: it matches every path but "/"
PAny == <<"/", ":", "p", "a", "t", "h", "*">>

\* a pathname that new URLPattern() rejects
PNoName == PTest \o <<"/", ":">>

PStatic == <<"/", "s", "t", "a", "t", "i", "c">>

Folder == <<"s", "t", "a", "t", "i", "c">>

\* the pathname arguments of get, post, patch and delete
PathnameInputs == {Str(PTestId), Str(PAny), Str(PNoName), Str(<<>>), NotAString}

HandlerInputs == {Responds, Throws, EchoBody, EchoId}

\* the pathname arguments of static(): the default, and the root
MountInputs == {PStatic, <<>>}

UrlInputs ==
    {[pathname |-> PTest \o <<"/", "1", "2", "3">>, search |-> <<>>],
     [pathname |-> <<"/", "b", "a", "r">>, search |-> <<"q">>],
     [pathname |-> PStatic \o <<"/", "a", ".", "j", "s">>, search |-> <<>>],
     [pathname |-> PStatic \o <<"/", "b">>, search |-> <<>>]}

BodyInputs == {"{\"test\":\"TEST\"}", "not json"}

(***************************************************************************)
(* State                                                                   *)
(***************************************************************************)
VARIABLES
    routes,     \* #routes: method -> the entries of its Map, in insertion order
    error,      \* what the last registration call threw, "" when it returned
    regs,       \* the number of registration calls that stored an entry
    reqs,       \* the Request objects created so far
    disp        \* the calls of route(), running and finished

vars == <<routes, error, regs, reqs, disp>>

Init ==
    /\ routes = [m \in Methods |-> <<>>]
    /\ error = ""
    /\ regs = 0
    /\ reqs = <<>>
    /\ disp = <<>>

(***************************************************************************)
(* Registration                                                            *)
(***************************************************************************)
\* a table that takes every call as a new entry
MapSetAppends(entries, pathname, handler) ==
    Append(entries, [pathname |-> pathname, handler |-> handler])

\* a table where a key that is set again moves to the end
MapSetMovesLast(entries, pathname, handler) ==
    Append(SelectSeq(entries, LAMBDA e : e.pathname # pathname),
           [pathname |-> pathname, handler |-> handler])

\* Map.prototype.set: a new key goes last, a known key keeps its place
MapSet(entries, pathname, handler) ==
    IF \E k \in 1..Len(entries) : entries[k].pathname = pathname
    THEN [k \in 1..Len(entries) |->
            IF entries[k].pathname = pathname
            THEN [pathname |-> pathname, handler |-> handler]
            ELSE entries[k]]
    ELSE Append(entries, [pathname |-> pathname, handler |-> handler])

\* #add that tests the type of the pathname only, and so stores ""
addTypeOnly(method, pathname, handler) ==
    IF pathname.typeof # "string"
    THEN [routes |-> routes, error |-> "Invalid pathname"]
    ELSE IF method \in DOMAIN routes
         THEN [routes |-> [routes EXCEPT
                             ![method] = MapSet(@, pathname.chars, handler)],
               error |-> ""]
         ELSE [routes |-> routes, error |-> ""]

\* #add that makes a Map for a method that has none
addAnyMethod(method, pathname, handler) ==
    IF pathname.typeof # "string" \/ pathname.chars = <<>>
    THEN [routes |-> routes, error |-> "Invalid pathname"]
    ELSE [routes |-> [m \in DOMAIN routes \cup {method} |->
                        IF m = method
                        THEN MapSet(IF m \in DOMAIN routes THEN routes[m] ELSE <<>>,
                                    pathname.chars, handler)
                        ELSE routes[m]],
          error |-> ""]

\* #add(method, pathname, handler): the table afterwards and what was thrown
add(method, pathname, handler) ==
    IF pathname.typeof # "string" \/ pathname.chars = <<>>
    THEN [routes |-> routes, error |-> "Invalid pathname"]
    ELSE IF method \in DOMAIN routes
         THEN [routes |-> [routes EXCEPT
                             ![method] = MapSet(@, pathname.chars, handler)],
               error |-> ""]
         ELSE [routes |-> routes, error |-> ""]

\* a call of #add, while fewer than max calls have stored an entry
RegisterWithin(max, method, pathname, handler) ==
    LET r == add(method, pathname, handler)
    IN  /\ regs < max
        /\ routes' = r.routes
        /\ error' = r.error
        /\ regs' = IF r.error = "" THEN regs + 1 ELSE regs
        /\ UNCHANGED <<reqs, disp>>

Register(method, pathname, handler) ==
    RegisterWithin(MaxRegs, method, pathname, handler)

get(pathname, handler) == Register("GET", pathname, handler)

post(pathname, handler) == Register("POST", pathname, handler)

patch(pathname, handler) == Register("PATCH", pathname, handler)

delete(pathname, handler) == Register("DELETE", pathname, handler)

static(pathname, foldername) ==
    Register("GET", Str(pathname \o <<"/", ":", "p", "a", "t", "h", "*">>),
             StaticHandler(foldername))

(***************************************************************************)
(* Dispatch                                                                *)
(***************************************************************************)
\* #parseParams with the two groups objects swapped
parseParamsSwapped(url, reqUrl) ==
    LET pathname == SearchGroups(url, reqUrl)
        search == PathnameGroups(url, reqUrl)
    IN  [hasPathname |-> Len(pathname) # 0,
         pathname |-> IF Len(pathname) # 0 THEN pathname ELSE <<>>,
         hasSearch |-> Len(search) # 0,
         search |-> IF Len(search) # 0 THEN search ELSE <<>>]

\* #parseParams(url, reqUrl): a key is set when its groups object has keys
parseParams(url, reqUrl) ==
    LET pathname == PathnameGroups(url, reqUrl)
        search == SearchGroups(url, reqUrl)
    IN  [hasPathname |-> Len(pathname) # 0,
         pathname |-> IF Len(pathname) # 0 THEN pathname ELSE <<>>,
         hasSearch |-> Len(search) # 0,
         search |-> IF Len(search) # 0 THEN search ELSE <<>>]

NoParams == [hasPathname |-> FALSE, pathname |-> <<>>, hasSearch |-> FALSE,
             search |-> <<>>]

\* req.text(), as settled when it is called: a request without a body reads
\* as "", a body reads once, and reading it again rejects
text(req) ==
    IF ~req.hasBody THEN [rejected |-> FALSE, text |-> ""]
    ELSE IF req.bodyUsed THEN [rejected |-> TRUE, text |-> ""]
    ELSE [rejected |-> FALSE, text |-> req.body]

\* #parseBody(req), after the await: the try/catch turns every failure to null
parseBody(read) ==
    IF read.rejected \/ JSONparse(read.text).threw THEN JsonNull
    ELSE JSONparse(read.text).value

\* the for loop of route() from entry i on, up to its next await: the entry
\* that matches, the end of the Map, or the TypeError of new URLPattern()
RECURSIVE Loop(_, _, _)
Loop(entries, reqUrl, i) ==
    IF i > Len(entries) THEN [kind |-> "end", idx |-> i]
    ELSE LET url == URLPattern(entries[i].pathname)
         IN  IF ~url.ok THEN [kind |-> "throw", idx |-> i]
             ELSE IF test(url, reqUrl) THEN [kind |-> "match", idx |-> i]
             ELSE Loop(entries, reqUrl, i + 1)

NoResponse == Response("", <<>>, 0, "", 0)

NoOutcome == [threw |-> FALSE, response |-> NoResponse]

NoRead == [rejected |-> FALSE, text |-> ""]

\* the locals of a call of route() with the request r, as it begins
Started(r, status) ==
    [req |-> r, pc |-> "returned", status |-> status, idx |-> 0,
     params |-> NoParams, read |-> NoRead, outcome |-> NoOutcome,
     calls |-> <<>>, result |-> NoResponse, version |-> regs,
     after |-> {k \in 1..Len(disp) : disp[k].pc \in {"returned", "rejected"}}]

\* route() with 404 as the status it begins with
EnterFrom404(r, req) ==
    LET d == Started(r, 404)
    IN  IF req.method \notin DOMAIN routes
        THEN [d EXCEPT !.result = Response("", <<>>, d.status, "", 0)]
        ELSE [d EXCEPT !.status = 404, !.pc = "loop"]

\* lines 151-153 of route(): status = 405, and 404 once the method has a Map;
\* without one, line 171 returns
Enter(r, req) ==
    LET d == Started(r, 405)
    IN  IF req.method \notin DOMAIN routes
        THEN [d EXCEPT !.result = Response("", <<>>, d.status, "", 0)]
        ELSE [d EXCEPT !.status = 404, !.pc = "loop"]

\* the loop of route() with a final response that carries what was caught
ResumeLeaks(d, req, i) ==
    LET entries == routes[req.method]
        l == Loop(entries, req.url, i)
    IN  CASE l.kind = "throw" -> [d EXCEPT !.pc = "rejected", !.idx = l.idx]
          [] l.kind = "end" ->
                [d EXCEPT !.pc = "returned", !.idx = l.idx,
                          !.result = Response(IF d.status = 500 THEN "Error: TEST"
                                              ELSE "", <<>>, d.status, "", 0)]
          [] l.kind = "match" ->
                [d EXCEPT !.pc = "parseBody", !.idx = l.idx,
                          !.params = parseParams(URLPattern(entries[l.idx].pathname),
                                                 req.url),
                          !.read = text(req)]

\* the loop of a call of route() resumed at entry i
Resume(d, req, i) ==
    LET entries == routes[req.method]
        l == Loop(entries, req.url, i)
    IN  CASE l.kind = "throw" -> [d EXCEPT !.pc = "rejected", !.idx = l.idx]
          [] l.kind = "end" ->
                [d EXCEPT !.pc = "returned", !.idx = l.idx,
                          !.result = Response("", <<>>, d.status, "", 0)]
          [] l.kind = "match" ->
                [d EXCEPT !.pc = "parseBody", !.idx = l.idx,
                          !.params = parseParams(URLPattern(entries[l.idx].pathname),
                                                 req.url),
                          !.read = text(req)]

\* the Request after the call of req.text() that Resume may have made
AfterResume(d, req) ==
    IF d.pc = "parseBody" /\ req.hasBody THEN [req EXCEPT !.bodyUsed = TRUE] ELSE req

\* new Request(url, { method, body }): GET takes no body
NewRequestWithin(max, method, url, hasBody, body) ==
    /\ Len(reqs) < max
    /\ method = "GET" => ~hasBody
    /\ reqs' = Append(reqs, [method |-> method, url |-> url, hasBody |-> hasBody,
                             body |-> IF hasBody THEN body ELSE "",
                             bodyUsed |-> FALSE])
    /\ UNCHANGED <<routes, error, regs, disp>>

NewRequest(method, url, hasBody, body) ==
    NewRequestWithin(MaxRequests, method, url, hasBody, body)

\* route(req) is called and runs to its first await (line 160) or to its end
routeWithin(max, r) ==
    /\ Len(disp) < max
    /\ LET e == Enter(r, reqs[r])
           d == IF e.pc = "loop" THEN Resume(e, reqs[r], 1) ELSE e
       IN  /\ disp' = Append(disp, d)
           /\ reqs' = [reqs EXCEPT ![r] = AfterResume(d, @)]
    /\ UNCHANGED <<routes, error, regs>>

route(r) == routeWithin(MaxDispatch, r)

\* BodyRead with the text that was read kept in the router, not in the call
\* of route(): every call parses the text of the call that began last
BodyReadShared(k) ==
    /\ disp[k].pc = "parseBody"
    /\ LET d == disp[k]
           entry == routes[reqs[d.req].method][d.idx]
           body == parseBody(disp[Len(disp)].read)
           o == Call(entry.handler, d.params, body, d.idx)
       IN  disp' = [disp EXCEPT ![k] =
                [d EXCEPT !.pc = "handler", !.outcome = o,
                          !.calls = Append(@, [idx |-> d.idx,
                                               pathname |-> entry.pathname,
                                               handler |-> entry.handler,
                                               params |-> d.params,
                                               body |-> body,
                                               threw |-> o.threw])]]
    /\ UNCHANGED <<routes, error, regs, reqs>>

\* req.text() has settled: the body is parsed and the handler is called
\* (lines 48-50 and 163, up to the await of the handler's result)
BodyRead(k) ==
    /\ disp[k].pc = "parseBody"
    /\ LET d == disp[k]
           entry == routes[reqs[d.req].method][d.idx]
           body == parseBody(d.read)
           o == Call(entry.handler, d.params, body, d.idx)
       IN  disp' = [disp EXCEPT ![k] =
                [d EXCEPT !.pc = "handler", !.outcome = o,
                          !.calls = Append(@, [idx |-> d.idx,
                                               pathname |-> entry.pathname,
                                               handler |-> entry.handler,
                                               params |-> d.params,
                                               body |-> body,
                                               threw |-> o.threw])]]
    /\ UNCHANGED <<routes, error, regs, reqs>>

\* the handler's result has settled: route() returns it, or catches what the
\* handler threw, sets status = 500 and goes on with the loop (lines 163-168)
HandlerDone(k) ==
    /\ disp[k].pc = "handler"
    /\ LET d == disp[k]
           n == IF d.outcome.threw
                THEN Resume([d EXCEPT !.status = 500], reqs[d.req], d.idx + 1)
                ELSE [d EXCEPT !.pc = "returned", !.result = d.outcome.response]
       IN  /\ disp' = [disp EXCEPT ![k] = n]
           /\ reqs' = [reqs EXCEPT ![d.req] =
                          IF d.outcome.threw THEN AfterResume(n, @) ELSE @]
    /\ UNCHANGED <<routes, error, regs>>

Next ==
    \/ \E p \in PathnameInputs, h \in HandlerInputs : get(p, h)
    \/ \E p \in PathnameInputs, h \in HandlerInputs : post(p, h)
    \/ \E p \in PathnameInputs, h \in HandlerInputs : patch(p, h)
    \/ \E p \in PathnameInputs, h \in HandlerInputs : delete(p, h)
    \/ \E p \in MountInputs : static(p, Folder)
    \/ \E m \in RequestMethods, u \in UrlInputs, b \in BodyInputs, hb \in BOOLEAN :
          NewRequest(m, u, hb, b)
    \/ \E r \in 1..Len(reqs) : route(r)
    \/ \E k \in 1..Len(disp) : BodyRead(k)
    \/ \E k \in 1..Len(disp) : HandlerDone(k)

Spec == Init /\ [][Next]_vars

(***************************************************************************)
(* The router with GET routes only: longer tables and two Request objects  *)
(***************************************************************************)
GetRegs == 3

GetRequests == 2

GetDispatch == 2

GetPathnames == {Str(PAny), Str(PTestId), Str(PNoName)}

GetHandlers == {Throws, Responds}

GetUrls ==
    {[pathname |-> PTest \o <<"/", "1", "2", "3">>, search |-> <<>>],
     [pathname |-> <<"/", "b", "a", "r">>, search |-> <<"q">>]}

GetRegister(pathname, handler) == RegisterWithin(GetRegs, "GET", pathname, handler)

GetRequest(url) == NewRequestWithin(GetRequests, "GET", url, FALSE, "")

GetRoute(r) == routeWithin(GetDispatch, r)

GetNext ==
    \/ \E p \in GetPathnames, h \in GetHandlers : GetRegister(p, h)
    \/ \E u \in GetUrls : GetRequest(u)
    \/ \E r \in 1..Len(reqs) : GetRoute(r)
    \/ \E k \in 1..Len(disp) : BodyRead(k)
    \/ \E k \in 1..Len(disp) : HandlerDone(k)

GetSpec == Init /\ [][GetNext]_vars

(***************************************************************************)
(* POST requests with bodies, several Request objects                      *)
(***************************************************************************)
PairRegs == 2

PairRequests == 2

PairDispatch == 2

PairPathnames == {Str(PAny), Str(PTestId)}

PairHandlers == {Throws, EchoBody}

PairUrls == {[pathname |-> PTest \o <<"/", "1", "2", "3">>, search |-> <<>>],
             [pathname |-> <<"/", "b", "a", "r">>, search |-> <<"q">>]}

PairRegister(pathname, handler) == RegisterWithin(PairRegs, "POST", pathname, handler)

PairRequest(url, hasBody, body) ==
    NewRequestWithin(PairRequests, "POST", url, hasBody, body)

PairRoute(r) == routeWithin(PairDispatch, r)

PairNext ==
    \/ \E p \in PairPathnames, h \in PairHandlers : PairRegister(p, h)
    \/ \E u \in PairUrls, b \in BodyInputs, hb \in BOOLEAN : PairRequest(u, hb, b)
    \/ \E r \in 1..Len(reqs) : PairRoute(r)
    \/ \E k \in 1..Len(disp) : BodyRead(k)
    \/ \E k \in 1..Len(disp) : HandlerDone(k)

PairSpec == Init /\ [][PairNext]_vars

(***************************************************************************)
(* GET requests on patterns with and without named segments                *)
(***************************************************************************)
ParamRegs == 2

ParamRequests == 1

ParamDispatch == 2

ParamPathnames == {Str(PTest), Str(PTestId)}

ParamHandlers == {Responds, EchoId}

ParamUrls == {[pathname |-> PTest, search |-> <<>>],
              [pathname |-> PTest, search |-> <<"q">>],
              [pathname |-> PTest \o <<"/", "1", "2", "3">>, search |-> <<>>]}

ParamRegister(pathname, handler) == RegisterWithin(ParamRegs, "GET", pathname, handler)

ParamRequest(url) == NewRequestWithin(ParamRequests, "GET", url, FALSE, "")

ParamRoute(r) == routeWithin(ParamDispatch, r)

ParamNext ==
    \/ \E p \in ParamPathnames, h \in ParamHandlers : ParamRegister(p, h)
    \/ \E u \in ParamUrls : ParamRequest(u)
    \/ \E r \in 1..Len(reqs) : ParamRoute(r)
    \/ \E k \in 1..Len(disp) : BodyRead(k)
    \/ \E k \in 1..Len(disp) : HandlerDone(k)

ParamSpec == Init /\ [][ParamNext]_vars

(***************************************************************************)
(* #add called with any method string                                      *)
(***************************************************************************)
AddRegs == 2

AddMethods == Methods \cup {"PUT"}

AddCall(method, pathname, handler) == RegisterWithin(AddRegs, method, pathname, handler)

AddNext == \E m \in AddMethods, p \in PathnameInputs, h \in HandlerInputs : AddCall(m, p, h)

AddSpec == Init /\ [][AddNext]_vars

(***************************************************************************)
(* Registration alone, through the five registering methods                *)
(***************************************************************************)
TableRegs == 3

TableRegister(method, pathname, handler) ==
    RegisterWithin(TableRegs, method, pathname, handler)

TableNext ==
    \/ \E p \in PathnameInputs, h \in HandlerInputs : TableRegister("GET", p, h)
    \/ \E p \in PathnameInputs, h \in HandlerInputs : TableRegister("POST", p, h)
    \/ \E p \in PathnameInputs, h \in HandlerInputs : TableRegister("PATCH", p, h)
    \/ \E p \in PathnameInputs, h \in HandlerInputs : TableRegister("DELETE", p, h)
    \/ \E p \in MountInputs :
          TableRegister("GET", Str(p \o <<"/", ":", "p", "a", "t", "h", "*">>),
                        StaticHandler(Folder))

TableSpec == Init /\ [][TableNext]_vars

\* the pathname and handler arguments the registering methods are called with
RegisteredPathnames ==
    PathnameInputs \cup {Str(m \o <<"/", ":", "p", "a", "t", "h", "*">>) : m \in MountInputs}

RegisteredHandlers == HandlerInputs \cup {StaticHandler(Folder)}

Pathnames(entries) == {entries[k].pathname : k \in 1..Len(entries)}

Bound(entries, pathname) ==
    {entries[k].handler : k \in {j \in 1..Len(entries) : entries[j].pathname = pathname}}


(***************************************************************************)
(* Vocabulary of the properties                                            *)
(***************************************************************************)
Finished(d) == d.pc \in {"returned", "rejected"}

\* no entry was stored since the call of route() began: the table it ran
\* against is the table of this state
Stable(d) == d.version = regs

\* the pathname is a pattern that matches the URL
Matches(pathname, reqUrl) ==
    URLPattern(pathname).ok /\ test(URLPattern(pathname), reqUrl)

MatchSet(entries, reqUrl) ==
    {i \in 1..Len(entries) : Matches(entries[i].pathname, reqUrl)}

Min(S) == CHOOSE i \in S : \A j \in S : i <= j

\* the value of the request's body text
ExpectedBody(req) ==
    IF req.hasBody /\ ~JSONparse(req.body).threw THEN JSONparse(req.body).value
    ELSE JsonNull

\* the body that entry i's handler is given in the call d of route(): the one
\* it was called with, else the value of the request's body text
BodyFor(d, req, i) ==
    IF \E n \in 1..Len(d.calls) : d.calls[n].idx = i
    THEN (CHOOSE c \in {d.calls[n] : n \in 1..Len(d.calls)} : c.idx = i).body
    ELSE ExpectedBody(req)

\* what entry i's handler does for the request of the call d
HandlerOutcome(d, req, entries, i) ==
    Call(entries[i].handler,
         parseParams(URLPattern(entries[i].pathname), req.url),
         BodyFor(d, req, i), i)

\* the calls of route() with a supported method that have ended, against the
\* table of this state
Settled ==
    {k \in 1..Len(disp) :
        Finished(disp[k]) /\ Stable(disp[k]) /\ reqs[disp[k].req].method \in Methods}

\* C1: when the first pattern, in registration order, that matches the URL has
\* a handler that returns a response, route() returns exactly that response
\* and calls the handler of no other pattern.
C1_FirstMatchResponds ==
    \A k \in Settled :
        LET d == disp[k]
            req == reqs[d.req]
            entries == routes[req.method]
            M == MatchSet(entries, req.url)
        IN  (M # {} /\ ~HandlerOutcome(d, req, entries, Min(M)).threw) =>
                /\ d.pc = "returned"
                /\ d.result = HandlerOutcome(d, req, entries, Min(M)).response
                /\ \A n \in 1..Len(d.calls) : d.calls[n].idx = Min(M)

\* C2: route() never rejects: every call of it ends with a response.
C2_RouteNeverRejects ==
    \A k \in 1..Len(disp) : disp[k].pc # "rejected"

\* C3: a request whose method is none of GET, POST, PATCH, DELETE gets a
\* response with status 405, whatever its URL and the table, and no handler
\* is called.
C3_UnknownMethod405 ==
    \A k \in 1..Len(disp) :
        reqs[disp[k].req].method \notin Methods =>
            /\ disp[k].pc = "returned"
            /\ disp[k].result = Response("", <<>>, 405, "", 0)
            /\ disp[k].calls = <<>>

C3_Witness ==
    \E k \in 1..Len(disp) :
        /\ reqs[disp[k].req].method = "TEST"
        /\ disp[k].pc = "returned"
        /\ disp[k].version > 0
        /\ \E m \in Methods : MatchSet(routes[m], reqs[disp[k].req].url) # {}

\* C4: a request with a supported method that no pattern registered under
\* that method matches gets status 404, and no handler is called.
C4_NoMatch404 ==
    \A k \in Settled :
        LET d == disp[k]
            req == reqs[d.req]
        IN  MatchSet(routes[req.method], req.url) = {} =>
                /\ d.pc = "returned"
                /\ d.result = Response("", <<>>, 404, "", 0)
                /\ d.calls = <<>>

\* C5: when a matched pattern's handler throws and no matching pattern of the
\* method's table returns a response, the result has status 500, also when
\* only patterns that do not match follow the failing one.
C5_HandlerFailure500 ==
    \A k \in Settled :
        LET d == disp[k]
            req == reqs[d.req]
            entries == routes[req.method]
        IN  (/\ \E n \in 1..Len(d.calls) : d.calls[n].threw
             /\ \A i \in MatchSet(entries, req.url) :
                    HandlerOutcome(d, req, entries, i).threw) =>
                /\ d.pc = "returned"
                /\ d.result = Response("", <<>>, 500, "", 0)

\* C6: every handler that a call of route() invokes for a request whose body
\* text is valid JSON is given the parsed value as body, the handler reached
\* after an earlier matched handler failed included (stated for the first
\* call of route() with the request).
C6_EveryHandlerGetsBody ==
    \A k \in 1..Len(disp) :
        LET d == disp[k]
            req == reqs[d.req]
        IN  (/\ req.hasBody
             /\ ~JSONparse(req.body).threw
             /\ \A j \in 1..(k - 1) : disp[j].req # d.req) =>
                \A n \in 1..Len(d.calls) :
                    d.calls[n].body = JSONparse(req.body).value

\* the status a call of route() ended with, 0 when it rejected
StatusOf(d) == IF d.pc = "returned" THEN d.result.status ELSE 0

\* C7: calling route() again with the same Request, after the first call has
\* ended and with no registration in between, gives the same status code.
C7_RedispatchSameStatus ==
    \A k \in 1..Len(disp) : \A j \in disp[k].after :
        (/\ disp[j].req = disp[k].req
         /\ Finished(disp[k])
         /\ disp[j].version = disp[k].version
         /\ Stable(disp[k])) =>
            StatusOf(disp[j]) = StatusOf(disp[k])

\* C8: get, post, patch and delete, given an empty string or a value that is
\* no string as the pattern, throw the 'Invalid pathname' error and store
\* nothing.
C8_InvalidPathnameThrows ==
    [][\A p \in PathnameInputs, h \in HandlerInputs :
          ((p.typeof # "string" \/ p.chars = <<>>)
           /\ (get(p, h) \/ post(p, h) \/ patch(p, h) \/ delete(p, h))) =>
              (error' = "Invalid pathname" /\ routes' = routes)]_vars

C8_Witness ==
    /\ error = "Invalid pathname"
    /\ regs > 0
    /\ \E m \in Methods : routes[m] # <<>>

\* the file of a call of the static handler
StaticFile(c) ==
    <<".", Slash>> \o c.handler.foldername \o <<Slash>>
        \o Prop(c.params.pathname, <<"p", "a", "t", "h">>)

RECURSIVE Fill(_, _, _)
Fill(parts, groups, k) ==
    IF k > Len(parts) THEN <<>>
    ELSE (IF parts[k].type = "fixed" THEN parts[k].value
          ELSE IF Prop(groups, parts[k].name) = <<>> THEN <<>>
          ELSE parts[k].prefix \o Prop(groups, parts[k].name))
         \o Fill(parts, groups, k + 1)

\* C10: when a pattern with named segments matches, the handler's
\* params.pathname has exactly the pattern's names as keys, and each maps to
\* the piece of the request path its segment matched: the pieces, put back
\* into the pattern, spell the request path, and a plain ":name" holds one
\* non-empty segment.
C10_NamedSegments ==
    \A k \in 1..Len(disp) : \A n \in 1..Len(disp[k].calls) :
        LET c == disp[k].calls[n]
            parts == URLPattern(c.pathname).parts
            names == GroupNames(parts)
            groups == c.params.pathname
        IN  names # <<>> =>
                /\ c.params.hasPathname
                /\ [i \in 1..Len(groups) |-> groups[i].name] = names
                /\ Fill(parts, groups, 1) = reqs[disp[k].req].url.pathname
                /\ \A i \in 1..Len(parts) :
                      (parts[i].type = "group" /\ parts[i].modifier = "") =>
                          /\ Prop(groups, parts[i].name) # <<>>
                          /\ Slash \notin {Prop(groups, parts[i].name)[j] :
                                j \in 1..Len(Prop(groups, parts[i].name))}

\* /test/:id against /test/123 gives params.pathname.id = "123"
C10_Witness ==
    \E k \in 1..Len(disp) : \E n \in 1..Len(disp[k].calls) :
        /\ disp[k].calls[n].pathname = PTestId
        /\ reqs[disp[k].req].url.pathname = PTest \o <<"/", "1", "2", "3">>
        /\ Prop(disp[k].calls[n].params.pathname, <<"i", "d">>) = <<"1", "2", "3">>
        /\ disp[k].calls[n].handler = EchoId
        /\ disp[k].pc = "returned"
        /\ disp[k].result.arg = <<"1", "2", "3">>

\* the entries of the method's table whose pattern matches and whose handler
\* returns a response
Responding(d, req, entries) ==
    {i \in MatchSet(entries, req.url) : ~HandlerOutcome(d, req, entries, i).threw}

\* C11: when a matched handler throws, route() goes on with the patterns
\* after it, and when a matching handler after it returns a response that
\* response, not a 500, is the result.
C11_FallThroughToLaterMatch ==
    \A k \in Settled :
        LET d == disp[k]
            req == reqs[d.req]
            entries == routes[req.method]
            M == MatchSet(entries, req.url)
            R == Responding(d, req, entries)
        IN  ((\E n \in 1..Len(d.calls) : d.calls[n].threw) /\ R # {}) =>
                /\ d.pc = "returned"
                /\ d.result = HandlerOutcome(d, req, entries, Min(R)).response
                /\ {d.calls[n].idx : n \in 1..Len(d.calls)} = {i \in M : i <= Min(R)}

\* C12: a response that route() builds itself has no body and no headers, and
\* its status is 405, 404 or 500: 405 only for a method without a table, 500
\* only after a handler threw in that call; nothing of what the handler threw
\* is in it.
C12_OwnResponsesAreBare ==
    \A k \in 1..Len(disp) :
        LET d == disp[k]
        IN  (d.pc = "returned" /\ d.result.by = 0) =>
                /\ d.result.text = ""
                /\ d.result.arg = <<>>
                /\ d.result.contentType = ""
                /\ d.result.status \in {405, 404, 500}
                /\ d.result.status = 405 <=> reqs[d.req].method \notin Methods
                /\ d.result.status = 500 <=>
                       \E n \in 1..Len(d.calls) : d.calls[n].threw

C12_Witness ==
    \E k \in 1..Len(disp) :
        /\ disp[k].pc = "returned"
        /\ disp[k].result.by = 0
        /\ disp[k].result.status = 500
        /\ \E n \in 1..Len(disp[k].calls) :
              disp[k].calls[n].threw /\ disp[k].calls[n].handler = Throws

\* C13: in every step each method's table holds a pattern once at most and
\* loses no pattern; a registration that stores binds its pattern to the
\* handler of that call, leaves the other patterns of the table bound as they
\* were, and leaves the tables of the other methods as they were.
C13_TablePerMethod ==
    [][/\ \A m \in Methods :
            /\ Pathnames(routes[m]) \subseteq Pathnames(routes'[m])
            /\ Cardinality(Pathnames(routes'[m])) = Len(routes'[m])
       /\ \A m \in Methods, p \in RegisteredPathnames, h \in RegisteredHandlers :
            (regs' = regs + 1 /\ TableRegister(m, p, h)) =>
                /\ Bound(routes'[m], p.chars) = {h}
                /\ Pathnames(routes'[m]) = Pathnames(routes[m]) \cup {p.chars}
                /\ \A q \in Pathnames(routes[m]) \ {p.chars} :
                       Bound(routes'[m], q) = Bound(routes[m], q)
                /\ \A o \in Methods \ {m} : routes'[o] = routes[o]]_vars

\* three calls have stored and two entries are there: one call replaced
C13_Witness ==
    /\ regs = 3
    /\ Len(routes["POST"]) = 1
    /\ Len(routes["GET"]) = 1
    /\ \A m \in Methods \ {"POST", "GET"} : routes[m] = <<>>

\* route(req) run from its call to its end with nothing in between, from
\* entry i on: how it ends and what it returns
RECURSIVE Alone(_, _, _, _)
Alone(entries, req, i, status) ==
    LET l == Loop(entries, req.url, i)
    IN  CASE l.kind = "throw" -> [pc |-> "rejected", result |-> NoResponse]
          [] l.kind = "end" ->
                [pc |-> "returned", result |-> Response("", <<>>, status, "", 0)]
          [] l.kind = "match" ->
                LET o == Call(entries[l.idx].handler,
                              parseParams(URLPattern(entries[l.idx].pathname), req.url),
                              parseBody(text(req)), l.idx)
                IN  IF o.threw
                    THEN Alone(entries, [req EXCEPT !.bodyUsed = req.hasBody],
                               l.idx + 1, 500)
                    ELSE [pc |-> "returned", result |-> o.response]

RunAlone(req) ==
    IF req.method \notin Methods
    THEN [pc |-> "returned", result |-> Response("", <<>>, 405, "", 0)]
    ELSE Alone(routes[req.method], [req EXCEPT !.bodyUsed = FALSE], 1, 404)

\* the call k of route() is the only one its Request was passed to
Independent(k) == \A j \in 1..Len(disp) : j # k => disp[j].req # disp[k].req

\* every ended call of route() on a Request of its own, against the table of
\* this state, ended as that call run alone ends
Isolated ==
    \A k \in 1..Len(disp) :
        (Finished(disp[k]) /\ Stable(disp[k]) /\ Independent(k)) =>
            /\ disp[k].pc = RunAlone(reqs[disp[k].req]).pc
            /\ disp[k].result = RunAlone(reqs[disp[k].req]).result

\* C14: no step of route() changes the route table, and calls of route() on
\* Requests of their own that interleave at the awaits of the body and of the
\* handler each end with the response they end with when run alone against
\* the same table.
C14_DispatchesDoNotInterfere ==
    /\ [][(disp' # disp \/ reqs' # reqs) => (routes' = routes /\ regs' = regs)]_vars
    /\ []Isolated

\* two calls on two Requests, the second begun while the first was at an
\* await, each ended with a response after two handlers were called
C14_Witness ==
    /\ Len(disp) = 2
    /\ disp[1].req # disp[2].req
    /\ 1 \notin disp[2].after
    /\ \A k \in {1, 2} :
          /\ disp[k].pc = "returned"
          /\ Stable(disp[k])
          /\ Len(disp[k].calls) = 2
          /\ disp[k].calls[1].threw

\* C15: the params a handler is called with have the key pathname only when
\* the match made a path capture and the key search only when it made a query
\* capture; when the pattern has no capture and the URL no query, params has
\* neither key.
C15_ParamsKeysOnlyForCaptures ==
    \A k \in 1..Len(disp) : \A n \in 1..Len(disp[k].calls) :
        LET c == disp[k].calls[n]
            reqUrl == reqs[disp[k].req].url
            url == URLPattern(c.pathname)
        IN  /\ c.params.hasPathname => PathnameGroups(url, reqUrl) # <<>>
            /\ c.params.hasSearch => SearchGroups(url, reqUrl) # <<>>
            /\ (GroupNames(url.parts) = <<>> /\ reqUrl.search = <<>>) =>
                   (~c.params.hasPathname /\ ~c.params.hasSearch)

\* C16: a call of #add with a method other than GET, POST, PATCH and DELETE
\* and a non-empty string as pathname leaves every table as it was and throws
\* nothing, and the methods that have a table are those four in every state.
C16_UnsupportedMethodDropped ==
    /\ [][\A p \in PathnameInputs, h \in HandlerInputs :
            (p.typeof = "string" /\ p.chars # <<>> /\ AddCall("PUT", p, h)) =>
                (routes' = routes /\ error' = "")]_vars
    /\ [](DOMAIN routes = Methods)

\* a call has ended without an error and no table has an entry: the call was
\* one with a method that has no table
C16_Witness ==
    /\ regs = 1
    /\ error = ""
    /\ \A m \in DOMAIN routes : routes[m] = <<>>

PositionOf(entries, pathname) ==
    CHOOSE k \in 1..Len(entries) : entries[k].pathname = pathname

\* C17: a registration of a pattern that the method's table already holds
\* changes the handler at the pattern's position and nothing else: every
\* pattern stays where it was, so the pattern is still tested before the
\* patterns registered after it was first registered, and the loop of route()
\* stops at the same position for every URL.
C17_ReRegistrationKeepsPosition ==
    [][\A p \in GetPathnames, h \in GetHandlers :
          (/\ regs' = regs + 1
           /\ GetRegister(p, h)
           /\ p.chars \in Pathnames(routes["GET"])) =>
              LET k == PositionOf(routes["GET"], p.chars)
              IN  /\ routes'["GET"] = [routes["GET"] EXCEPT ![k].handler = h]
                  /\ \A j \in (k + 1)..Len(routes["GET"]) :
                         PositionOf(routes'["GET"], routes["GET"][j].pathname) > k
                  /\ \A u \in GetUrls :
                         Loop(routes'["GET"], u, 1) = Loop(routes["GET"], u, 1)]_vars

\* a call of route() began with two patterns registered and called the first
\* pattern's handler; that pattern was then registered again with another
\* handler and is still the first of the two
C17_Witness ==
    \E k \in 1..Len(disp) :
        /\ disp[k].version = 2
        /\ regs = 3
        /\ Len(routes["GET"]) = 2
        /\ Len(disp[k].calls) >= 1
        /\ disp[k].calls[1].idx = 1
        /\ routes["GET"][1].pathname = disp[k].calls[1].pathname
        /\ routes["GET"][1].handler # disp[k].calls[1].handler

\* the entries after position i whose pattern matches the URL
LaterMatches(entries, reqUrl, i) == {j \in MatchSet(entries, reqUrl) : j > i}

\* C18: when a handler has thrown and the first pattern after it that matches
\* the URL was stored while this call of route() was suspended, the call goes
\* on to that pattern: it is tested, and its handler is the next one called.
C18_LateRegistrationIsTested ==
    [][\A k \in 1..Len(disp) :
          (/\ disp[k].pc = "handler"
           /\ disp[k].outcome.threw
           /\ disp'[k] # disp[k]) =>
              LET d == disp[k]
                  req == reqs[d.req]
                  later == LaterMatches(routes[req.method], req.url, d.idx)
              IN  (later # {} /\ Min(later) > d.version) =>
                      /\ disp'[k].pc = "parseBody"
                      /\ disp'[k].idx = Min(later)]_vars

====
